---- MODULE Spec2Model ----
(***************************************************************************)
(* Model of the nexus-vercel-summary GitHub Action (multi-deployment       *)
(* variant, src/unnamed/part_000): input validation, comment-body          *)
(* rendering, lookup of the existing comment and the create-or-update      *)
(* write against the pull request's comment list.                          *)
(*                                                                         *)
(* Strings are TLC strings; startsWith / includes / toLowerCase /          *)
(* substring / replace are computed character by character.  The module    *)
(* text is ASCII, so the emoji of the source are written as short codes:   *)
(*   U+1F680 rocket -> ":rocket:"     U+1F50D magnifier -> ":mag:"         *)
(*   U+23F3 hourglass -> ":hourglass:" U+274C cross -> ":x:"               *)
(*   U+2705 check -> ":check:"        U+1F517 link -> ":link:"             *)
(*   U+2022 bullet -> "*"             newline -> "\n"                      *)
(* A JavaScript object is a record whose DOMAIN is the set of its present  *)
(* fields; an absent field is a field outside the DOMAIN.                  *)
(***************************************************************************)
EXTENDS Integers, Sequences, FiniteSets, TLC

VARIABLES
  comments,   \* the pull request's comment list, in the order listComments returns it
  run,        \* per invocation: position, inputs, locals and outcome of run()
  last,       \* history: the inputs and resulting comment list of the last finished run
  fn,         \* the last direct call of one of the pure functions, with its result
  createdBy   \* history: for each comment a run created, the environment of that run

vars == <<comments, run, last, fn, createdBy>>

----------------------------------------------------------------------------
(* Bounds *)

MaxComments == 3      \* comments a pull request holds at most
MaxDeployments == 2   \* longest deployments array given to a direct call
MaxListLen == 3       \* longest comment list given to a direct call of the locator

----------------------------------------------------------------------------
(* String primitives of JavaScript *)

Min(a, b) == IF a < b THEN a ELSE b

\* String.prototype.startsWith
StartsWith(s, p) == Len(s) >= Len(p) /\ SubSeq(s, 1, Len(p)) = p

\* String.prototype.includes
Includes(s, p) == \E i \in 1..(Len(s) - Len(p) + 1) : SubSeq(s, i, i + Len(p) - 1) = p

\* number of (possibly overlapping) occurrences of p in s
Occurrences(s, p) == Cardinality({i \in 1..(Len(s) - Len(p) + 1) : SubSeq(s, i, i + Len(p) - 1) = p})

\* String.prototype.substring(a, b) for 0 <= a <= b
Substring(s, a, b) == SubSeq(s, a + 1, Min(b, Len(s)))

\* String.prototype.replace(pattern, replacement) with a string pattern:
\* replaces the first occurrence only
Replace(s, p, r) ==
  IF Includes(s, p)
  THEN LET i == CHOOSE k \in 1..(Len(s) - Len(p) + 1) :
                  /\ SubSeq(s, k, k + Len(p) - 1) = p
                  /\ \A j \in 1..(k - 1) : SubSeq(s, j, j + Len(p) - 1) # p
       IN SubSeq(s, 1, i - 1) \o r \o SubSeq(s, i + Len(p), Len(s))
  ELSE s

LowerChar(c) ==
  CASE c = "A" -> "a" [] c = "B" -> "b" [] c = "C" -> "c" [] c = "D" -> "d"
    [] c = "E" -> "e" [] c = "F" -> "f" [] c = "G" -> "g" [] c = "H" -> "h"
    [] c = "I" -> "i" [] c = "J" -> "j" [] c = "K" -> "k" [] c = "L" -> "l"
    [] c = "M" -> "m" [] c = "N" -> "n" [] c = "O" -> "o" [] c = "P" -> "p"
    [] c = "Q" -> "q" [] c = "R" -> "r" [] c = "S" -> "s" [] c = "T" -> "t"
    [] c = "U" -> "u" [] c = "V" -> "v" [] c = "W" -> "w" [] c = "X" -> "x"
    [] c = "Y" -> "y" [] c = "Z" -> "z" [] OTHER -> c

RECURSIVE LowerFrom(_, _)
LowerFrom(s, i) ==
  IF i > Len(s) THEN "" ELSE LowerChar(SubSeq(s, i, i)) \o LowerFrom(s, i + 1)

\* String.prototype.toLowerCase
ToLowerCase(s) == LowerFrom(s, 1)

RECURSIVE JoinFrom(_, _, _)
JoinFrom(a, sep, i) ==
  IF i > Len(a) THEN ""
  ELSE IF i = Len(a) THEN a[i]
  ELSE a[i] \o sep \o JoinFrom(a, sep, i + 1)

\* Array.prototype.join
Join(a, sep) == JoinFrom(a, sep, 1)

\* JavaScript truthiness of an optional string field: present and non-empty
Truthy(o, f) == f \in DOMAIN o /\ o[f] # ""

----------------------------------------------------------------------------
(* generateCommentBody *)

\* the ambient @actions/github context read by generateCommentBody and run
Contexts ==
  { [hasPR |-> pr, prNumber |-> 7, owner |-> "uw-datasci", repo |-> "nexus",
     sha |-> s, ref |-> r] :
      pr \in BOOLEAN, s \in {"abcdef123456"}, r \in {"refs/heads/main"} }

envEmoji(environment) == IF environment = "production" THEN ":rocket:" ELSE ":mag:"
envName(environment) == IF environment = "production" THEN "Production" ELSE "Preview"

headerAlwaysPreview(environment) == "## :mag: Vercel Preview Deployments"

\* the header line built by generateCommentBody
header(environment) ==
  "## " \o envEmoji(environment) \o " Vercel " \o envName(environment) \o " Deployments"

\* the metadata line built by generateCommentBody
metadata(commitSha, ctx) ==
  LET sha == IF commitSha # "" THEN commitSha ELSE Substring(ctx.sha, 0, 7)
      branch == Replace(ctx.ref, "refs/heads/", "")
  IN branch \o " * " \o sha

statusOfExact(deployment) == deployment.status

\* const status = deployment.status.toLowerCase()
statusOf(deployment) == ToLowerCase(deployment.status)

\* the text one iteration of the forEach appends to body
deploymentBlock(deployment) ==
  LET name == IF Truthy(deployment, "name") THEN deployment.name ELSE "App"
      status == statusOf(deployment)
  IN IF status = "building" THEN "### :hourglass: " \o name \o "\n**Building...**\n\n"
     ELSE IF status = "failed" THEN "### :x: " \o name \o "\n**Deployment Failed**\n\n"
     ELSE IF status = "successful"
          THEN IF Truthy(deployment, "url")
               THEN "### :check: " \o name \o "\n:link: **[Visit Deployment]("
                      \o deployment.url \o ")**\n\n"
               ELSE "### :check: " \o name \o "\n**Deployment Successful**\n\n"
     ELSE ""

RECURSIVE blocksFrom(_, _)
blocksFrom(deployments, i) ==
  IF i > Len(deployments) THEN ""
  ELSE deploymentBlock(deployments[i]) \o blocksFrom(deployments, i + 1)

footer == "---\n\n<sub>Deployed with [Vercel](https://vercel.com)</sub>"

generateCommentBody(deployments, environment, commitSha, ctx) ==
  header(environment) \o "\n\n" \o metadata(commitSha, ctx) \o "\n\n"
    \o blocksFrom(deployments, 1) \o footer

----------------------------------------------------------------------------
(* findExistingComment *)

searchPatternAnyEnvironment(environment) == "## "

\* the prefix findExistingComment searches for
searchPattern(environment) ==
  "## " \o (IF environment = "production" THEN ":rocket:" ELSE ":mag:")
        \o " Vercel "
        \o (IF environment = "production" THEN "Production" ELSE "Preview")
        \o " Deployments"

matchesPatternAnywhere(comment, environment) ==
  "body" \in DOMAIN comment /\ Includes(comment.body, searchPattern(environment))

\* the predicate given to comments.find: comment.body?.startsWith(searchPattern)
matchesPattern(comment, environment) ==
  "body" \in DOMAIN comment /\ StartsWith(comment.body, searchPattern(environment))

Undefined == [undefined |-> TRUE]   \* Array.prototype.find found nothing
Null == [null |-> TRUE]             \* the catch branch's return value

\* JavaScript truthiness of findExistingComment's result
IsComment(c) == "id" \in DOMAIN c

\* Array.prototype.find: the first element, in list order, the predicate accepts
RECURSIVE findFrom(_, _, _)
findFrom(list, environment, i) ==
  IF i > Len(list) THEN Undefined
  ELSE IF matchesPattern(list[i], environment) THEN list[i]
  ELSE findFrom(list, environment, i + 1)

\* the try branch of findExistingComment, on the data listComments returned
findExistingComment(list, environment) == findFrom(list, environment, 1)

----------------------------------------------------------------------------
(* validation of the deployments input, as run() does it *)

validStatuses == <<"building", "failed", "successful">>

InSeq(x, a) == \E i \in 1..Len(a) : a[i] = x

\* JSON.parse: the input text is described by the value it denotes, or as malformed
JSONparse(json) ==
  IF json.kind = "malformed"
  THEN [ok |-> FALSE, message |-> "Invalid deployments JSON: Unexpected token"]
  ELSE [ok |-> TRUE, value |-> json]

IsArray(v) == v.kind = "array"

isValidStatusAny(status) == TRUE

isValidStatusExact(status) == InSeq(status, validStatuses)

\* validStatuses.includes(deployment.status.toLowerCase())
isValidStatus(status) == InSeq(ToLowerCase(status), validStatuses)

\* one iteration of the validating forEach: the error it throws, or ok
validateDeployment(deployment, index) ==
  IF ~Truthy(deployment, "name")
  THEN [ok |-> FALSE,
        message |-> "Deployment at index " \o ToString(index)
                      \o " missing required field: name"]
  ELSE IF ~Truthy(deployment, "status")
  THEN [ok |-> FALSE,
        message |-> "Deployment at index " \o ToString(index)
                      \o " missing required field: status"]
  ELSE IF ~isValidStatus(deployment.status)
  THEN [ok |-> FALSE,
        message |-> "Deployment \"" \o deployment.name \o "\" has invalid status: "
                      \o deployment.status \o ". Must be one of: "
                      \o Join(validStatuses, ", ")]
  ELSE [ok |-> TRUE, message |-> ""]

RECURSIVE validateFrom(_, _)
validateFrom(items, i) ==
  IF i > Len(items) THEN [ok |-> TRUE, message |-> ""]
  ELSE LET r == validateDeployment(items[i], i - 1)
       IN IF r.ok THEN validateFrom(items, i + 1) ELSE r

\* the array check and the forEach of run(), on a parsed value
validateDeployments(v) ==
  IF ~IsArray(v) \/ Len(v.items) = 0
  THEN [ok |-> FALSE, message |-> "deployments must be a non-empty array"]
  ELSE validateFrom(v.items, 1)

----------------------------------------------------------------------------
(* Input domains *)

\* deployment objects, valid and invalid
DeploymentObjects ==
  { [name |-> "A", status |-> "building"],
    [name |-> "B", status |-> "BUILDING"],
    [name |-> "A", status |-> "failed"],
    [name |-> "B", status |-> "Failed"],
    [name |-> "A", status |-> "successful", url |-> "https://a.app"],
    [name |-> "B", status |-> "successful"],
    [name |-> "A", status |-> "SUCCESSFUL", url |-> "https://b.app"],
    [name |-> "B", status |-> "successful", url |-> ""],
    [status |-> "successful"],
    [name |-> "", status |-> "building"],
    [name |-> "A"],
    [name |-> "A", status |-> ""],
    [name |-> "B", status |-> "pending"] }

SeqsUpTo(S, n) == UNION { [1..k -> S] : k \in 0..n }

\* parsed values of the deployments input: arrays of objects and non-arrays
DeploymentValues(n) ==
  { [kind |-> "array", items |-> a] : a \in SeqsUpTo(DeploymentObjects, n) }
    \cup { [kind |-> "string"], [kind |-> "object"], [kind |-> "null"] }

Environments == {"production", "preview", "staging"}
CommitShas == {"", "abc1234"}

\* bodies of comments given to a direct call of the locator
ListedBodies ==
  { "Some other comment",
    "## :rocket: Vercel Production Deployments\n\nContent",
    "## :mag: Vercel Preview Deployments\n\nContent",
    "## :mag: Vercel Preview Deployment - A\n\nContent",
    "See ## :mag: Vercel Preview Deployments" }

ListedComments(n) ==
  { [id |-> k] : k \in 1..n }
    \cup { [id |-> k, body |-> b] : k \in 1..n, b \in ListedBodies }

\* comment lists of up to n comments with distinct ids
CommentLists(n) ==
  UNION { { l \in [1..k -> ListedComments(n)] :
              \A i, j \in 1..k : i # j => l[i].id # l[j].id } : k \in 0..n }

----------------------------------------------------------------------------
(* Direct calls of the pure functions *)

CallGenerate ==
  /\ fn.op = "none"
  /\ \E v \in DeploymentValues(MaxDeployments), e \in Environments,
        c \in CommitShas, ctx \in Contexts :
       /\ validateDeployments(v).ok
       /\ fn' = [op |-> "generateCommentBody", deployments |-> v.items,
                 environment |-> e, commitSha |-> c, ctx |-> ctx,
                 result |-> generateCommentBody(v.items, e, c, ctx)]
  /\ UNCHANGED <<comments, run, last, createdBy>>

CallValidate ==
  /\ fn.op = "none"
  /\ \E v \in DeploymentValues(MaxDeployments) :
       fn' = [op |-> "validateDeployments", value |-> v,
              result |-> validateDeployments(v)]
  /\ UNCHANGED <<comments, run, last, createdBy>>

CallFind ==
  /\ fn.op = "none"
  /\ \E l \in CommentLists(MaxListLen), e \in Environments :
       fn' = [op |-> "findExistingComment", list |-> l, environment |-> e,
              result |-> findExistingComment(l, e)]
  /\ UNCHANGED <<comments, run, last, createdBy>>

----------------------------------------------------------------------------
(* run(): the invocations *)

Procs == {1, 2}

ApiErrors == {"API rate limit exceeded"}

ValidRunValues ==
  { [kind |-> "array", items |-> <<[name |-> "A", status |-> "building"]>>],
    [kind |-> "array",
     items |-> <<[name |-> "A", status |-> "successful", url |-> "https://a.app"],
                 [name |-> "B", status |-> "Failed"]>>] }

InvalidRunValues ==
  { [kind |-> "missing"], [kind |-> "malformed"], [kind |-> "string"],
    [kind |-> "array", items |-> <<>>],
    [kind |-> "array", items |-> <<[status |-> "successful"]>>],
    [kind |-> "array", items |-> <<[name |-> "A", status |-> "building"], [name |-> "B"]>>],
    [kind |-> "array", items |-> <<[name |-> "B", status |-> "pending"]>>] }

EnvironmentInputs == {"", "production", "preview", "staging"}

\* the inputs of an invocation: the action's inputs and the ambient context.
\* The token and the deployments input are not both unusable in one invocation,
\* and the environment varies only in invocations whose other inputs are usable.
RunInputs ==
  { i \in [token : {"", "ghs_token"},
           deployments : ValidRunValues \cup InvalidRunValues,
           environment : EnvironmentInputs,
           commitSha : {""},
           ctx : Contexts] :
      /\ i.token = "" => i.deployments \in ValidRunValues
      /\ (i.token = "" \/ i.deployments \in InvalidRunValues) => i.environment = "preview" }

NoInputs ==
  [token |-> "", deployments |-> [kind |-> "missing"], environment |-> "",
   commitSha |-> "", ctx |-> [hasPR |-> FALSE, prNumber |-> 0, owner |-> "", repo |-> "",
            sha |-> "", ref |-> ""]]

NoList == [ok |-> FALSE, data |-> <<>>, message |-> ""]

IdleRun ==
  [pc |-> "idle", inputs |-> NoInputs, environment |-> "", commentBody |-> "",
   listed |-> NoList, existingComment |-> Undefined, writeError |-> "",
   calls |-> <<>>, logs |-> <<>>, failed |-> FALSE, message |-> ""]

NoLast == [valid |-> FALSE, inputs |-> NoInputs]

\* the catch of run(): setFailed(`Action failed: ${error.message}`)
setFailed(r, errorMessage) ==
  [r EXCEPT !.pc = "done", !.failed = TRUE, !.message = "Action failed: " \o errorMessage]

info(r, line) == [r EXCEPT !.logs = Append(@, line)]

\* getInput(name, { required: true }) throws when the input is empty
RequiredMissing(name) == "Input required and not supplied: " \o name

isPullRequestAlways(ctx) == TRUE

\* the guard of "Only run on pull requests": context.payload.pull_request
isPullRequest(ctx) == ctx.hasPR

\* run() from its entry to the first await (the listComments request), or to its
\* end when it returns or throws before that
runToList(inputs) ==
  LET r0 == [IdleRun EXCEPT !.inputs = inputs]
  IN IF inputs.token = "" THEN setFailed(r0, RequiredMissing("github-token"))
     ELSE IF inputs.deployments.kind = "missing"
     THEN setFailed(r0, RequiredMissing("deployments"))
     ELSE
       LET environment == IF inputs.environment # "" THEN inputs.environment ELSE "preview"
           r1 == info(info([r0 EXCEPT !.environment = environment],
                           "Running Nexus Vercel Summary action"),
                      "Environment: " \o environment)
       IN IF ~isPullRequest(inputs.ctx)
          THEN [info(r1, "Not a pull request event, skipping comment") EXCEPT !.pc = "done"]
          ELSE
            LET r2 == info(info(r1, "PR Number: " \o ToString(inputs.ctx.prNumber)),
                           "Repository: " \o inputs.ctx.owner \o "/" \o inputs.ctx.repo)
                parsed == JSONparse(inputs.deployments)
            IN IF ~parsed.ok THEN setFailed(r2, parsed.message)
               ELSE
                 LET checked == validateDeployments(parsed.value)
                 IN IF ~checked.ok THEN setFailed(r2, checked.message)
                    ELSE
                      LET deployments == parsed.value.items
                          r3 == info(r2, "Processing " \o ToString(Len(deployments))
                                           \o " deployment(s)")
                      IN [r3 EXCEPT
                            !.commentBody = generateCommentBody(deployments, environment,
                                                                inputs.commitSha, inputs.ctx),
                            !.calls = <<[op |-> "listComments",
                                         issue_number |-> inputs.ctx.prNumber]>>,
                            !.pc = "listing"]

decideWriteAlwaysCreate(r) ==
  [info(r, "Creating new comment")
     EXCEPT !.calls = Append(@, [op |-> "createComment",
                                 issue_number |-> r.inputs.ctx.prNumber,
                                 body |-> r.commentBody]),
            !.pc = "writing"]

\* the create-or-update decision of run() and the write request it sends
decideWrite(r) ==
  IF IsComment(r.existingComment)
  THEN [info(r, "Updating existing comment (ID: " \o ToString(r.existingComment.id) \o ")")
          EXCEPT !.calls = Append(@, [op |-> "updateComment",
                                      comment_id |-> r.existingComment.id,
                                      body |-> r.commentBody]),
                 !.pc = "writing"]
  ELSE [info(r, "Creating new comment")
          EXCEPT !.calls = Append(@, [op |-> "createComment",
                                      issue_number |-> r.inputs.ctx.prNumber,
                                      body |-> r.commentBody]),
                 !.pc = "writing"]

InFlight(p) == run[p].pc \in {"listing", "writing"}

\* an invocation starts; invocations of one pull request follow one another
Start(p) ==
  /\ run[p].pc = "idle"
  /\ \A q \in Procs : run[q].pc = "idle"
  /\ \E inputs \in RunInputs :
       /\ run' = [run EXCEPT ![p] = runToList(inputs)]
       /\ last' = IF run'[p].pc = "done" THEN NoLast ELSE last
  /\ UNCHANGED <<comments, fn, createdBy>>

\* listComments answers with the pull request's comments
ListOk(p) ==
  /\ run[p].pc = "listing"
  /\ run' = [run EXCEPT ![p] =
               decideWrite([@ EXCEPT
                 !.listed = [ok |-> TRUE, data |-> comments, message |-> ""],
                 !.existingComment = findExistingComment(comments, run[p].environment)])]
  /\ UNCHANGED <<comments, last, fn, createdBy>>

ListFailPropagates(p) ==
  /\ run[p].pc = "listing"
  /\ \E e \in ApiErrors :
       run' = [run EXCEPT ![p] =
                 setFailed([@ EXCEPT !.listed = [ok |-> FALSE, data |-> <<>>, message |-> e]], e)]
  /\ last' = NoLast
  /\ UNCHANGED <<comments, fn, createdBy>>

\* listComments fails: the catch of findExistingComment logs and returns null
ListFail(p) ==
  /\ run[p].pc = "listing"
  /\ \E e \in ApiErrors :
       run' = [run EXCEPT ![p] =
                 decideWrite(info([@ EXCEPT
                                     !.listed = [ok |-> FALSE, data |-> <<>>, message |-> e],
                                     !.existingComment = Null],
                                  "Could not fetch existing comments: " \o e))]
  /\ UNCHANGED <<comments, last, fn, createdBy>>

LastCall(r) == r.calls[Len(r.calls)]

RECURSIVE MaxId(_, _)
MaxId(list, i) ==
  IF i > Len(list) THEN 0
  ELSE LET m == MaxId(list, i + 1) IN IF list[i].id > m THEN list[i].id ELSE m

UpdateOkAllMatching(p) ==
  /\ run[p].pc = "writing"
  /\ LastCall(run[p]).op = "updateComment"
  /\ comments' = [i \in 1..Len(comments) |->
                    IF matchesPattern(comments[i], run[p].environment)
                    THEN [id |-> comments[i].id, body |-> LastCall(run[p]).body]
                    ELSE comments[i]]
  /\ run' = [run EXCEPT ![p] = [info(@, "Comment updated successfully!") EXCEPT !.pc = "done"]]
  /\ last' = [valid |-> TRUE, inputs |-> run[p].inputs]
  /\ UNCHANGED <<fn, createdBy>>

\* updateComment succeeds: the comment with that id gets the new body
UpdateOk(p) ==
  /\ run[p].pc = "writing"
  /\ LastCall(run[p]).op = "updateComment"
  /\ comments' = [i \in 1..Len(comments) |->
                    IF comments[i].id = LastCall(run[p]).comment_id
                    THEN [id |-> comments[i].id, body |-> LastCall(run[p]).body]
                    ELSE comments[i]]
  /\ run' = [run EXCEPT ![p] = [info(@, "Comment updated successfully!") EXCEPT !.pc = "done"]]
  /\ last' = [valid |-> TRUE, inputs |-> run[p].inputs]
  /\ UNCHANGED <<fn, createdBy>>

CreateOkUnlessPresent(p) ==
  /\ run[p].pc = "writing"
  /\ LastCall(run[p]).op = "createComment"
  /\ Len(comments) < MaxComments
  /\ IF \E i \in 1..Len(comments) : matchesPattern(comments[i], run[p].environment)
     THEN /\ comments' = comments
          /\ createdBy' = createdBy
     ELSE /\ comments' = Append(comments, [id |-> MaxId(comments, 1) + 1,
                                           body |-> LastCall(run[p]).body])
          /\ createdBy' = createdBy \cup {[id |-> MaxId(comments, 1) + 1,
                                            environment |-> run[p].environment]}
  /\ run' = [run EXCEPT ![p] = [info(@, "Comment created successfully!") EXCEPT !.pc = "done"]]
  /\ last' = [valid |-> TRUE, inputs |-> run[p].inputs]
  /\ UNCHANGED fn

\* createComment succeeds: a new comment is appended to the pull request
CreateOk(p) ==
  /\ run[p].pc = "writing"
  /\ LastCall(run[p]).op = "createComment"
  /\ Len(comments) < MaxComments
  /\ comments' = Append(comments, [id |-> MaxId(comments, 1) + 1,
                                   body |-> LastCall(run[p]).body])
  /\ run' = [run EXCEPT ![p] = [info(@, "Comment created successfully!") EXCEPT !.pc = "done"]]
  /\ last' = [valid |-> TRUE, inputs |-> run[p].inputs]
  /\ createdBy' = createdBy \cup {[id |-> MaxId(comments, 1) + 1,
                                    environment |-> run[p].environment]}
  /\ UNCHANGED fn

\* createComment or updateComment fails: the error reaches the catch of run()
WriteFail(p) ==
  /\ run[p].pc = "writing"
  /\ \E e \in ApiErrors :
       run' = [run EXCEPT ![p] = setFailed([@ EXCEPT !.writeError = e], e)]
  /\ last' = NoLast
  /\ UNCHANGED <<comments, fn, createdBy>>

\* the process of a finished invocation exits
Exit(p) ==
  /\ run[p].pc = "done"
  /\ run' = [run EXCEPT ![p] = IdleRun]
  /\ UNCHANGED <<comments, last, fn, createdBy>>

UserBodies == {"Some other comment"}

\* someone else comments on the pull request (with or without a body)
UserComment ==
  /\ Len(comments) < MaxComments
  /\ \E c \in {[id |-> MaxId(comments, 1) + 1]}
              \cup {[id |-> MaxId(comments, 1) + 1, body |-> b] : b \in UserBodies} :
       comments' = Append(comments, c)
  /\ last' = NoLast
  /\ UNCHANGED <<run, fn, createdBy>>

----------------------------------------------------------------------------
(* Specifications *)

Init ==
  /\ comments = <<>>
  /\ run = [p \in Procs |-> IdleRun]
  /\ last = NoLast
  /\ fn = [op |-> "none"]
  /\ createdBy = {}

Next ==
  \/ \E p \in Procs : Start(p)
  \/ \E p \in Procs : ListOk(p)
  \/ \E p \in Procs : ListFail(p)
  \/ \E p \in Procs : UpdateOk(p)
  \/ \E p \in Procs : CreateOk(p)
  \/ \E p \in Procs : WriteFail(p)
  \/ \E p \in Procs : Exit(p)
  \/ UserComment

\* invocations against the pull request, one after the other
Spec == Init /\ [][Next]_vars

NextFn == CallGenerate \/ CallValidate \/ CallFind

\* one direct call of a pure function on an input of its domain
SpecFn == Init /\ [][NextFn]_vars

\* the inputs of invocations that overlap in time: usable inputs on a pull request
ConcurrentInputs ==
  { i \in RunInputs :
      /\ i.token # ""
      /\ i.deployments.kind = "array"
      /\ i.deployments.items = <<[name |-> "A", status |-> "building"]>>
      /\ i.ctx.hasPR
      /\ i.environment \in {"production", "preview"} }

\* an invocation starts while others may be in flight: nothing in run()
\* waits for, or knows of, another invocation
StartConcurrent(p) ==
  /\ run[p].pc = "idle"
  /\ \E inputs \in ConcurrentInputs :
       run' = [run EXCEPT ![p] = runToList(inputs)]
  /\ last' = NoLast
  /\ UNCHANGED <<comments, fn, createdBy>>

NextConcurrent ==
  \/ \E p \in Procs : StartConcurrent(p)
  \/ \E p \in Procs : ListOk(p)
  \/ \E p \in Procs : ListFail(p)
  \/ \E p \in Procs : UpdateOk(p)
  \/ \E p \in Procs : CreateOk(p)
  \/ \E p \in Procs : WriteFail(p)
  \/ \E p \in Procs : Exit(p)
  \/ UserComment

\* invocations against the pull request that may overlap
SpecConcurrent == Init /\ [][NextConcurrent]_vars

----------------------------------------------------------------------------
(* The single-app variant of the action, src/src/index.js *)

\* the header line built by generateCommentBody of index.js
appHeader(environment, appName) ==
  "## " \o (IF environment = "production" THEN ":rocket:" ELSE ":mag:")
        \o " Vercel "
        \o (IF environment = "production" THEN "Production" ELSE "Preview")
        \o " Deployment"
        \o (IF appName # "" THEN " - " \o appName ELSE "")

\* the metadata line built by generateCommentBody of index.js
appMetadata(appName, commitSha, ctx) ==
  LET appTitle == IF appName # "" THEN appName ELSE ctx.repo
      sha == IF commitSha # "" THEN commitSha ELSE Substring(ctx.sha, 0, 7)
      branch == Replace(ctx.ref, "refs/heads/", "")
  IN "**" \o appTitle \o "** * " \o branch \o " * " \o sha

\* generateCommentBody of index.js: the body, or the error it throws
appGenerateCommentBody(status, deploymentUrl, environment, appName, commitSha, ctx) ==
  LET top == appHeader(environment, appName) \o "\n\n"
               \o appMetadata(appName, commitSha, ctx) \o "\n\n"
  IN IF status = "building"
     THEN [ok |-> TRUE, message |-> "",
           body |-> top \o ":hourglass: **Building...**\n\nYour deployment is being built. This comment will be updated when the deployment is ready."]
     ELSE IF status = "failed"
     THEN [ok |-> TRUE, message |-> "",
           body |-> top \o ":x: **Deployment Failed**\n\nThe deployment has failed. Please check the build logs for more information."]
     ELSE IF status = "successful"
     THEN IF deploymentUrl = ""
          THEN [ok |-> FALSE, body |-> "",
                message |-> "deployment-url is required when status is successful"]
          ELSE [ok |-> TRUE, message |-> "",
                body |-> top \o ":check: **Deployment Successful!**\n\n:link: **[Visit Deployment]("
                           \o deploymentUrl \o ")**\n\n" \o footer]
     ELSE [ok |-> FALSE, body |-> "",
           message |-> "Invalid status: " \o status
                         \o ". Must be one of: building, failed, successful"]

\* the prefix findExistingComment of index.js searches for
appSearchPattern(environment, appName) ==
  "## " \o (IF environment = "production" THEN ":rocket:" ELSE ":mag:")
        \o " Vercel "
        \o (IF environment = "production" THEN "Production" ELSE "Preview")
        \o " Deployment"
        \o (IF appName # "" THEN " - " \o appName ELSE "")

\* comment.body && comment.body.startsWith(searchPattern)
appMatchesPattern(comment, environment, appName) ==
  /\ Truthy(comment, "body")
  /\ StartsWith(comment.body, appSearchPattern(environment, appName))

RECURSIVE appFindFrom(_, _, _, _)
appFindFrom(list, environment, appName, i) ==
  IF i > Len(list) THEN Undefined
  ELSE IF appMatchesPattern(list[i], environment, appName) THEN list[i]
  ELSE appFindFrom(list, environment, appName, i + 1)

\* the try branch of findExistingComment of index.js
appFindExistingComment(list, environment, appName) ==
  appFindFrom(list, environment, appName, 1)

AppNames == {"", "web", "web2"}

\* the inputs of an invocation of index.js: the app varies in preview runs,
\* and an unusable token or status comes with otherwise plain inputs
AppRunInputs ==
  { i \in [token : {"", "ghs_token"},
           status : {"", "building", "SUCCESSFUL", "pending"},
           deploymentUrl : {"", "https://a.app"},
           environment : {"", "production"},
           appName : AppNames,
           projectName : {"", "web"},
           commitSha : {""},
           ctx : Contexts] :
      /\ i.deploymentUrl # "" => i.status = "SUCCESSFUL"
      /\ i.projectName # "" => i.appName = "" /\ i.status = "building"
      /\ i.status = "SUCCESSFUL" => i.appName \in {"", "web"}
      /\ (i.token = "" \/ i.status # "building") => i.environment = ""
      /\ (i.token = "" \/ i.status \in {"", "pending"}) =>
           i.appName = "" /\ i.projectName = ""
      /\ i.token = "" => i.status = "building"
      /\ i.environment # "" => i.appName = ""
      /\ ~i.ctx.hasPR => i.environment = "" /\ i.appName = "" /\ i.projectName = "" }

IdleAppRun ==
  [pc |-> "idle", inputs |-> NoInputs, environment |-> "", appName |-> "",
   commentBody |-> "", listed |-> NoList, existingComment |-> Undefined,
   writeError |-> "", calls |-> <<>>, logs |-> <<>>, failed |-> FALSE, message |-> ""]

\* run() of index.js from its entry to the first await (the listComments
\* request), or to its end when it returns or throws before that
appRunToList(inputs) ==
  LET r0 == [IdleAppRun EXCEPT !.inputs = inputs]
  IN IF inputs.token = "" THEN setFailed(r0, RequiredMissing("github-token"))
     ELSE IF inputs.status = "" THEN setFailed(r0, RequiredMissing("status"))
     ELSE
       LET status == ToLowerCase(inputs.status)
           environment == IF inputs.environment # "" THEN inputs.environment ELSE "preview"
           appName == IF inputs.appName # "" THEN inputs.appName ELSE inputs.projectName
           r1 == info(info(info([r0 EXCEPT !.environment = environment,
                                           !.appName = appName],
                                "Running Nexus Vercel Summary action"),
                           "Status: " \o status),
                      "Environment: " \o environment)
           r2 == IF appName # "" THEN info(r1, "App: " \o appName) ELSE r1
       IN IF ~InSeq(status, validStatuses)
          THEN setFailed(r2, "Invalid status: " \o status \o ". Must be one of: "
                               \o Join(validStatuses, ", "))
          ELSE IF ~inputs.ctx.hasPR
          THEN [info(r2, "Not a pull request event, skipping comment") EXCEPT !.pc = "done"]
          ELSE
            LET r3 == info(info(r2, "PR Number: " \o ToString(inputs.ctx.prNumber)),
                           "Repository: " \o inputs.ctx.owner \o "/" \o inputs.ctx.repo)
                g == appGenerateCommentBody(status, inputs.deploymentUrl, environment,
                                            appName, inputs.commitSha, inputs.ctx)
            IN IF ~g.ok THEN setFailed(r3, g.message)
               ELSE [r3 EXCEPT
                       !.commentBody = g.body,
                       !.calls = <<[op |-> "listComments",
                                    issue_number |-> inputs.ctx.prNumber]>>,
                       !.pc = "listing"]

\* an invocation of index.js starts; invocations follow one another
AppStart(p) ==
  /\ run[p].pc = "idle"
  /\ \A q \in Procs : run[q].pc = "idle"
  /\ \E inputs \in AppRunInputs :
       run' = [run EXCEPT ![p] = appRunToList(inputs)]
  /\ last' = NoLast
  /\ UNCHANGED <<comments, fn, createdBy>>

\* listComments answers an invocation of index.js
AppListOk(p) ==
  /\ run[p].pc = "listing"
  /\ run' = [run EXCEPT ![p] =
               decideWrite([@ EXCEPT
                 !.listed = [ok |-> TRUE, data |-> comments, message |-> ""],
                 !.existingComment =
                    appFindExistingComment(comments, run[p].environment, run[p].appName)])]
  /\ UNCHANGED <<comments, last, fn, createdBy>>

\* the run-to-completion steps of index.js; its create-or-update part
\* (lines 141-161) is the one of the multi-deployment variant
NextApp ==
  \/ \E p \in Procs : AppStart(p)
  \/ \E p \in Procs : AppListOk(p)
  \/ \E p \in Procs : ListFail(p)
  \/ \E p \in Procs : UpdateOk(p)
  \/ \E p \in Procs : CreateOk(p)
  \/ \E p \in Procs : WriteFail(p)
  \/ \E p \in Procs : Exit(p)
  \/ UserComment

\* invocations of the single-app variant against the pull request
SpecApp == Init /\ [][NextApp]_vars

----------------------------------------------------------------------------
(* The headers as the documentation gives them *)

ProductionHeader == "## :rocket: Vercel Production Deployments"
PreviewHeader == "## :mag: Vercel Preview Deployments"

\* two-way branch: production, otherwise preview
ExpectedHeader(environment) ==
  IF environment = "production" THEN ProductionHeader ELSE PreviewHeader

HasPrefix(comment, h) == "body" \in DOMAIN comment /\ StartsWith(comment.body, h)

\* positions of the comments of a list whose body starts with h
MatchPositions(list, h) == { i \in 1..Len(list) : HasPrefix(list[i], h) }

SetMin(S) == CHOOSE m \in S : \A x \in S : m <= x

RECURSIVE OnlyMatching(_, _)
OnlyMatching(list, h) ==
  IF list = <<>> THEN <<>>
  ELSE IF HasPrefix(Head(list), h) THEN <<Head(list)>> \o OnlyMatching(Tail(list), h)
  ELSE OnlyMatching(Tail(list), h)

----------------------------------------------------------------------------
(* C1 *)

\* C1: the pull request never holds two comments whose bodies start with the
\* header of the same environment: once such a comment exists, later runs for
\* that environment update it and do not create another.
C1_OneCommentPerEnvironment ==
  \A h \in {ProductionHeader, PreviewHeader} :
    Cardinality(MatchPositions(comments, h)) <= 1

----------------------------------------------------------------------------
(* C2 *)

ListCompleted(r) == r.listed.ok \/ r.listed.message # ""

\* the write the claim prescribes after a list that returned `list`
PrescribedWrite(r) ==
  LET M == MatchPositions(r.listed.data, ExpectedHeader(r.environment))
  IN IF M # {}
     THEN [op |-> "updateComment", comment_id |-> r.listed.data[SetMin(M)].id,
           body |-> r.commentBody]
     ELSE [op |-> "createComment", issue_number |-> r.inputs.ctx.prNumber,
           body |-> r.commentBody]

\* C2: a run that reaches the API first calls listComments; only when that
\* call has completed or failed does exactly one write call follow, which is
\* updateComment on the located comment when a match was listed and
\* createComment otherwise; a finished run that reached the API made exactly
\* these two calls.
C2_CallsOrdered ==
  \A p \in Procs :
    LET r == run[p]
    IN /\ Len(r.calls) <= 2
       /\ Len(r.calls) >= 1 => r.calls[1].op = "listComments"
       /\ r.pc = "listing" => Len(r.calls) = 1 /\ ~ListCompleted(r)
       /\ Len(r.calls) = 2 => ListCompleted(r) /\ r.calls[2] = PrescribedWrite(r)
       /\ (r.pc \in {"writing", "done"} /\ r.calls # <<>>) => Len(r.calls) = 2

C2_Witness ==
  \E p \in Procs :
    /\ run[p].pc = "done"
    /\ ~run[p].failed
    /\ Len(run[p].calls) = 2
    /\ run[p].calls[2].op = "updateComment"
    /\ Len(run[p].listed.data) >= 2

----------------------------------------------------------------------------
(* C3 *)

\* C3: the locator returns the first comment in list order whose body is
\* present and starts with the environment's header, and no comment when none
\* does; dropping the comments without a body and the non-matching ones from
\* the list does not change the result.
C3_LocatorFirstMatch ==
  fn.op = "findExistingComment" =>
    LET h == ExpectedHeader(fn.environment)
        M == MatchPositions(fn.list, h)
    IN /\ M = {} => ~IsComment(fn.result)
       /\ M # {} => fn.result = fn.list[SetMin(M)]
       /\ findExistingComment(OnlyMatching(fn.list, h), fn.environment) = fn.result

C3_Witness ==
  /\ fn.op = "findExistingComment"
  /\ Len(fn.list) = 3
  /\ "body" \notin DOMAIN fn.list[1]
  /\ HasPrefix(fn.list[2], PreviewHeader)
  /\ "body" \in DOMAIN fn.list[3] /\ Includes(fn.list[3].body, PreviewHeader)
  /\ ~HasPrefix(fn.list[3], PreviewHeader)
  /\ fn.environment = "preview"
  /\ fn.result = fn.list[2]

----------------------------------------------------------------------------
(* C4 *)

\* C4: a search for preview never returns a comment whose body starts with
\* the production header, a search for production never returns one whose
\* body starts with the preview header, and neither header is a prefix of the
\* other.
C4_NoCrossMatch ==
  /\ ~StartsWith(ProductionHeader, PreviewHeader)
  /\ ~StartsWith(PreviewHeader, ProductionHeader)
  /\ fn.op = "findExistingComment" =>
       /\ fn.environment = "preview" =>
            ~(IsComment(fn.result) /\ HasPrefix(fn.result, ProductionHeader))
       /\ fn.environment = "production" =>
            ~(IsComment(fn.result) /\ HasPrefix(fn.result, PreviewHeader))

C4_Witness ==
  /\ fn.op = "findExistingComment"
  /\ Len(fn.list) >= 2
  /\ HasPrefix(fn.list[1], ProductionHeader)
  /\ HasPrefix(fn.list[2], PreviewHeader)
  /\ fn.environment = "preview"
  /\ fn.result = fn.list[2]

----------------------------------------------------------------------------
(* C5 *)

\* C5: a failure of listComments is logged and handled as "no existing
\* comment": the run goes on to createComment and is not failed by it; a
\* finished run that reached the API is failed exactly when its write call
\* failed, and then with that error's message.
C5_OnlyWriteFailureFails ==
  \A p \in Procs :
    LET r == run[p]
    IN r.calls # <<>> =>
         /\ (~r.listed.ok /\ r.listed.message # "") =>
              /\ ~IsComment(r.existingComment)
              /\ Len(r.calls) = 2 /\ r.calls[2].op = "createComment"
              /\ InSeq("Could not fetch existing comments: " \o r.listed.message, r.logs)
         /\ r.pc # "done" => ~r.failed
         /\ r.pc = "done" =>
              /\ r.failed <=> r.writeError # ""
              /\ r.failed => r.message = "Action failed: " \o r.writeError

C5_Witness ==
  \E p \in Procs :
    /\ run[p].pc = "done"
    /\ ~run[p].listed.ok /\ run[p].listed.message # ""
    /\ ~run[p].failed
    /\ \E i \in 1..Len(comments) :
         "body" \in DOMAIN comments[i] /\ comments[i].body = run[p].commentBody

----------------------------------------------------------------------------
(* C6 *)

Building == {"building", "Building", "BUILDING"}
FailedStatus == {"failed", "Failed", "FAILED"}
Successful == {"successful", "Successful", "SUCCESSFUL"}

HasName(d) == "name" \in DOMAIN d /\ d.name # ""
HasStatus(d) == "status" \in DOMAIN d /\ d.status # ""
HasUrl(d) == "url" \in DOMAIN d /\ d.url # ""

\* an element the documentation calls invalid
BadDeployment(d) ==
  \/ ~HasName(d)
  \/ ~HasStatus(d)
  \/ d.status \notin (Building \cup FailedStatus \cup Successful)

\* a deployments value the documentation calls valid
AcceptableValue(v) ==
  /\ v.kind = "array"
  /\ Len(v.items) > 0
  /\ \A i \in 1..Len(v.items) : ~BadDeployment(v.items[i])

\* a deployments input the documentation calls invalid: no JSON, not an array,
\* an empty array, or an array with an invalid element
InvalidDeploymentsInput(json) ==
  json.kind \in {"missing", "malformed"} \/ ~AcceptableValue(json)

\* C6 as stated: every run whose deployments input is invalid ends as a
\* failed run with a message, without any API call.
C6_InvalidInputFails ==
  \A p \in Procs :
    (run[p].pc # "idle" /\ InvalidDeploymentsInput(run[p].inputs.deployments)) =>
      /\ run[p].pc = "done"
      /\ run[p].failed
      /\ StartsWith(run[p].message, "Action failed: ")
      /\ Len(run[p].message) > Len("Action failed: ")
      /\ run[p].calls = <<>>

\* C6 amended: every run for a pull request whose deployments input is
\* invalid ends as a failed run with a message, without any API call.
C6_InvalidInputFailsOnPullRequest ==
  \A p \in Procs :
    (/\ run[p].pc # "idle"
     /\ run[p].inputs.ctx.hasPR
     /\ InvalidDeploymentsInput(run[p].inputs.deployments)) =>
      /\ run[p].pc = "done"
      /\ run[p].failed
      /\ StartsWith(run[p].message, "Action failed: ")
      /\ Len(run[p].message) > Len("Action failed: ")
      /\ run[p].calls = <<>>

C6_Witness ==
  \E p \in Procs :
    /\ run[p].pc = "done"
    /\ run[p].inputs.ctx.hasPR
    /\ run[p].inputs.deployments.kind = "array"
    /\ Len(run[p].inputs.deployments.items) = 1
    /\ "status" \in DOMAIN run[p].inputs.deployments.items[1]
    /\ run[p].inputs.deployments.items[1].status = "pending"
    /\ run[p].failed
    /\ Len(comments) > 0

----------------------------------------------------------------------------
(* C7 *)

RequiredInputsSupplied(inputs) == inputs.token # "" /\ inputs.deployments.kind # "missing"

\* C7 as stated: a step of a run without a pull request issues no API call,
\* does not fail the run and leaves the comment list unchanged.
C7_NoPullRequestNoEffect ==
  [][\A p \in Procs :
       (run'[p] # run[p] /\ run'[p].pc # "idle" /\ ~run'[p].inputs.ctx.hasPR) =>
         /\ run'[p].calls = <<>>
         /\ ~run'[p].failed
         /\ comments' = comments]_vars

\* C7 amended: a step of a run without a pull request issues no API call and
\* leaves the comment list unchanged, and it does not fail the run when the
\* required inputs github-token and deployments are supplied.
C7_NoPullRequestNoEffectWithInputs ==
  [][\A p \in Procs :
       (run'[p] # run[p] /\ run'[p].pc # "idle" /\ ~run'[p].inputs.ctx.hasPR) =>
         /\ run'[p].calls = <<>>
         /\ RequiredInputsSupplied(run'[p].inputs) => ~run'[p].failed
         /\ run'[p].pc = "done"
         /\ comments' = comments]_vars

C7_Witness ==
  \E p \in Procs :
    /\ run[p].pc = "done"
    /\ ~run[p].inputs.ctx.hasPR
    /\ RequiredInputsSupplied(run[p].inputs)
    /\ ~run[p].failed
    /\ run[p].calls = <<>>
    /\ InSeq("Not a pull request event, skipping comment", run[p].logs)
    /\ Len(comments) > 0

----------------------------------------------------------------------------
(* C8 *)

\* the subsection the documentation prescribes for a valid deployment
ExpectedBlock(d) ==
  IF d.status \in Building
  THEN "### :hourglass: " \o d.name \o "\n**Building...**\n\n"
  ELSE IF d.status \in FailedStatus
  THEN "### :x: " \o d.name \o "\n**Deployment Failed**\n\n"
  ELSE IF HasUrl(d)
  THEN "### :check: " \o d.name \o "\n:link: **[Visit Deployment](" \o d.url \o ")**\n\n"
  ELSE "### :check: " \o d.name \o "\n**Deployment Successful**\n\n"

RECURSIVE ExpectedBlocks(_)
ExpectedBlocks(deps) ==
  IF deps = <<>> THEN "" ELSE ExpectedBlock(Head(deps)) \o ExpectedBlocks(Tail(deps))

LowerStatus(d) == [d EXCEPT !.status = ToLowerCase(@)]

\* C8: the body rendered for a valid deployment list starts with the
\* environment's header and contains one subsection per deployment, in input
\* order, chosen by the lower-cased status and the presence of a URL; a link
\* appears exactly for the successful deployments with a URL, with that URL;
\* the letter case of a status does not change the body.
C8_RenderBlocks ==
  fn.op = "generateCommentBody" =>
    LET body == fn.result
        deps == fn.deployments
        linked == { i \in 1..Len(deps) : deps[i].status \in Successful /\ HasUrl(deps[i]) }
    IN /\ StartsWith(body, ExpectedHeader(fn.environment))
       /\ Includes(body, "\n\n" \o ExpectedBlocks(deps) \o "---")
       /\ Occurrences(body, "### ") = Len(deps)
       /\ Occurrences(body, "[Visit Deployment](") = Cardinality(linked)
       /\ \A i \in linked : Includes(body, "[Visit Deployment](" \o deps[i].url \o ")")
       /\ generateCommentBody([i \in 1..Len(deps) |-> LowerStatus(deps[i])],
                              fn.environment, fn.commitSha, fn.ctx) = body

C8_Witness ==
  /\ fn.op = "generateCommentBody"
  /\ Len(fn.deployments) = 2
  /\ fn.deployments[1].status = "SUCCESSFUL" /\ HasUrl(fn.deployments[1])
  /\ fn.deployments[2].status = "successful" /\ ~HasUrl(fn.deployments[2])
  /\ fn.environment = "production"
  /\ Includes(fn.result, "### :check: A\n:link: **[Visit Deployment](https://b.app)**\n\n### :check: B\n**Deployment Successful**")

----------------------------------------------------------------------------
(* C9 *)

\* the message names the first violation of the value v
IdentifiesFirstViolation(v, message) ==
  IF v.kind # "array" \/ Len(v.items) = 0
  THEN Includes(message, "must be a non-empty array")
  ELSE LET i == SetMin({ k \in 1..Len(v.items) : BadDeployment(v.items[k]) })
           d == v.items[i]
       IN IF ~HasName(d)
          THEN /\ Includes(message, "index " \o ToString(i - 1) \o " ")
               /\ Includes(message, "field: name")
          ELSE IF ~HasStatus(d)
          THEN /\ Includes(message, "index " \o ToString(i - 1) \o " ")
               /\ Includes(message, "field: status")
          ELSE /\ Includes(message, "\"" \o d.name \o "\"")
               /\ Includes(message, "invalid status: " \o d.status \o ".")

\* C9: validation accepts exactly the non-empty arrays whose elements all
\* have a name and a status that is building, failed or successful in any
\* letter case; a rejection carries a message naming the first violation in
\* list order by its index and field, or by its name and value.
C9_ValidationExact ==
  fn.op = "validateDeployments" =>
    /\ fn.result.ok <=> AcceptableValue(fn.value)
    /\ ~fn.result.ok => IdentifiesFirstViolation(fn.value, fn.result.message)

C9_Witness ==
  /\ fn.op = "validateDeployments"
  /\ fn.value.kind = "array"
  /\ Len(fn.value.items) = 2
  /\ fn.value.items[1] = [name |-> "B", status |-> "BUILDING"]
  /\ fn.value.items[2] = [name |-> "B", status |-> "pending"]
  /\ ~fn.result.ok
  /\ Includes(fn.result.message, "invalid status: pending")

----------------------------------------------------------------------------
(* C10 *)

\* C10: when a run finishes whose inputs are those of the run that last
\* wrote to the pull request, and nobody else has commented since, its write
\* leaves the comment list as that earlier run left it.
C10_SecondRunNoDiff ==
  [][\A p \in Procs :
       (/\ run[p].pc = "writing"
        /\ run'[p].pc = "done"
        /\ last.valid
        /\ last.inputs = run[p].inputs) => comments' = comments]_vars

----------------------------------------------------------------------------
(* C11 *)

\* C11: a step of a run never removes a comment or changes a comment's id,
\* and it changes at most one comment: either it appends one, or it rewrites
\* the body of the first comment, in listed order, that matches the run's
\* header; later duplicates, the other environment's comments and unrelated
\* comments keep their body.
C11_AtMostOneCommentChanged ==
  [][\A p \in Procs :
       run'[p] # run[p] =>
         LET r == run[p]
             changed == { i \in 1..Len(comments) : comments'[i] # comments[i] }
             M == MatchPositions(r.listed.data, ExpectedHeader(r.environment))
         IN /\ Len(comments') >= Len(comments)
            /\ \A i \in 1..Len(comments) : comments'[i].id = comments[i].id
            /\ Cardinality(changed) + (Len(comments') - Len(comments)) <= 1
            /\ \A i \in changed :
                 /\ M # {}
                 /\ comments[i].id = r.listed.data[SetMin(M)].id
                 /\ \A j \in 1..(i - 1) : ~HasPrefix(comments[j], ExpectedHeader(r.environment))
                 /\ comments'[i].body = r.commentBody]_vars

C11_Witness ==
  \E p \in Procs :
    /\ run[p].pc = "done"
    /\ ~run[p].failed
    /\ Len(run[p].calls) = 2
    /\ run[p].calls[2].op = "updateComment"
    /\ \E i, j \in 1..Len(comments) :
         /\ i < j
         /\ HasPrefix(comments[i], ExpectedHeader(run[p].environment))
         /\ HasPrefix(comments[j], ExpectedHeader(run[p].environment))
         /\ comments[i].id = run[p].calls[2].comment_id
         /\ comments[i].body = run[p].commentBody
         /\ comments[j].body # run[p].commentBody
    /\ \E k \in 1..Len(comments) :
         ~HasPrefix(comments[k], ExpectedHeader(run[p].environment))

----------------------------------------------------------------------------
(* C12 *)

NoMatchListed(r) ==
  r.listed.ok /\ MatchPositions(r.listed.data, ExpectedHeader(r.environment)) = {}

\* C12: when two overlapping runs for the same environment have both listed
\* the comments without finding a match and have both finished their write,
\* the pull request holds at least two comments starting with that
\* environment's header: nothing between the list and the write re-checks.
C12_RaceLeavesDuplicates ==
  \A p, q \in Procs :
    (/\ p # q
     /\ run[p].pc = "done" /\ ~run[p].failed
     /\ run[q].pc = "done" /\ ~run[q].failed
     /\ ExpectedHeader(run[p].environment) = ExpectedHeader(run[q].environment)
     /\ NoMatchListed(run[p])
     /\ NoMatchListed(run[q])) =>
      Cardinality(MatchPositions(comments, ExpectedHeader(run[p].environment))) >= 2

C12_Witness ==
  \E p, q \in Procs :
    /\ p # q
    /\ run[p].pc = "done" /\ ~run[p].failed
    /\ run[q].pc = "done" /\ ~run[q].failed
    /\ run[p].environment = run[q].environment
    /\ NoMatchListed(run[p])
    /\ NoMatchListed(run[q])
    /\ run[p].calls[2].op = "createComment"
    /\ run[q].calls[2].op = "createComment"
    /\ Len(comments) = 2
    /\ HasPrefix(comments[1], ExpectedHeader(run[p].environment))
    /\ HasPrefix(comments[2], ExpectedHeader(run[p].environment))

----------------------------------------------------------------------------
(* C13 *)

\* the first line of a body
FirstLine(body) ==
  IF Includes(body, "\n")
  THEN SubSeq(body, 1, SetMin({ i \in 1..Len(body) : SubSeq(body, i, i) = "\n" }) - 1)
  ELSE body

\* the header line of a comment rendered for an app (or for no app) in an environment
ExpectedAppHeader(environment, appName) ==
  (IF environment = "production"
   THEN "## :rocket: Vercel Production Deployment"
   ELSE "## :mag: Vercel Preview Deployment")
    \o (IF appName # "" THEN " - " \o appName ELSE "")

\* C13: the comment a run of the single-app variant selects was rendered for
\* the run's own app (or for no app when the run has none) and environment:
\* its header line is the header of that app and environment.
C13_LocatorSelectsOwnApp ==
  \A p \in Procs :
    IsComment(run[p].existingComment) =>
      FirstLine(run[p].existingComment.body)
        = ExpectedAppHeader(run[p].environment, run[p].appName)

----------------------------------------------------------------------------
(* C14 *)

\* the comment with this id was created by a run with this environment value
CreatedBy(id, environment) == [id |-> id, environment |-> environment] \in createdBy

\* C14: the body a run renders starts with the pattern the locator builds for
\* the run's environment value, and when listComments succeeded and returned
\* a comment that an earlier run with the same environment value created,
\* the run's write is updateComment on that comment's id.
C14_UpdatesOwnEnvironmentComment ==
  \A p \in Procs :
    LET r == run[p]
    IN /\ r.commentBody # "" => StartsWith(r.commentBody, searchPattern(r.environment))
       /\ (r.listed.ok /\ Len(r.calls) = 2) =>
            \A i \in 1..Len(r.listed.data) :
              CreatedBy(r.listed.data[i].id, r.environment) =>
                /\ r.calls[2].op = "updateComment"
                /\ r.calls[2].comment_id = r.listed.data[i].id

----------------------------------------------------------------------------
(* C15 *)

\* C15 as stated: the comment a run locates, and then overwrites, was not
\* created by a run with a different environment value.
C15_NeverOtherEnvironmentValue ==
  \A p \in Procs :
    IsComment(run[p].existingComment) =>
      \A c \in createdBy :
        c.id = run[p].existingComment.id => c.environment = run[p].environment

\* C15 amended: the comment a run locates, and then overwrites, was created
\* by a run on the same side of the production / non-production divide: a
\* production run never takes a comment created with another value, and a
\* run with another value never takes a production comment.
C15_NeverAcrossProduction ==
  \A p \in Procs :
    IsComment(run[p].existingComment) =>
      /\ Len(run[p].calls) = 2
      /\ run[p].calls[2].op = "updateComment"
      /\ run[p].calls[2].comment_id = run[p].existingComment.id
      /\ \A c \in createdBy :
           c.id = run[p].existingComment.id =>
             (c.environment = "production" <=> run[p].environment = "production")

C15_Witness ==
  \E p \in Procs :
    /\ run[p].pc = "done"
    /\ ~run[p].failed
    /\ run[p].environment = "production"
    /\ IsComment(run[p].existingComment)
    /\ CreatedBy(run[p].existingComment.id, "production")
    /\ Len(run[p].listed.data) >= 2
    /\ CreatedBy(run[p].listed.data[1].id, "staging")
    /\ run[p].existingComment = run[p].listed.data[2]
    /\ comments[2].body = run[p].commentBody
    /\ comments[1] = run[p].listed.data[1]

====
